---- MODULE Spec2Model ----
(***************************************************************************)
(* Unity Catalog data modeler: the metadata reconciliation of              *)
(* modeler/erd.py (fetch_model_metadata, metadata_to_model), the DDL       *)
(* builders (build_create_table_sql, build_fk_sql,                         *)
(* generate_sql_from_model, quote_ident) and the handlers of app.py that   *)
(* drive them.                                                             *)
(*                                                                         *)
(* Text is a sequence of tokens.  Every character of an identifier is a    *)
(* token of its own ("a", " "; the backtick is the token BT); a literal    *)
(* of a template                                                           *)
(* ("CREATE TABLE ", "BIGINT") is one indivisible token that holds no      *)
(* backtick and is not white space.                                        *)
(***************************************************************************)
EXTENDS Integers, Sequences, FiniteSets, TLC

VARIABLES
    rowsets,    \* what the warehouse returns: columns, tc, kcu, rc, in arrival order
    edits,      \* number of changes made to the warehouse's answer so far
    metadata,   \* the graph of the last fetch_model_metadata
    first,      \* the graph of the first fetch_model_metadata
    fetched,    \* the rowsets the last fetch_model_metadata received
    dm,         \* st.session_state.design_model
    stmts,      \* the statement sequence of the SQL preview
    typed,      \* the table name typed in the form at the last table action
    pc,         \* "idle", or "applying" while the Apply loop runs
    idx,        \* 1-based position of the Apply loop in stmts
    attempted,  \* the statements handed to client.run_sql by the Apply loop
    errors,     \* the Apply loop's error list
    report,     \* what the last Apply showed: "none", "nothing", "error", "success"
    call,       \* the arguments of the last builder call or Explore handler
    ret         \* what that call returned, showed and handed to client.run_sql

vars == <<rowsets, edits, metadata, first, fetched, dm, stmts, typed, pc, idx, attempted,
          errors, report, call, ret>>

catVars == <<rowsets, edits>>
fetchVars == <<metadata, first, fetched>>
applyVars == <<pc, idx, attempted, errors, report>>
exploreVars == <<call, ret>>

----------------------------------------------------------------------------
(* Bounds *)

MaxEdits == 2       \* changes to the warehouse's answer in one behaviour
MaxRels == 2        \* relationships of the design model

----------------------------------------------------------------------------
(* Strings *)

\* The backtick character (the character itself cannot stand in a string here).
BT == "BACKTICK"

\* The newline character
NL == "NEWLINE"

\* Python's None, and a NULL cell of a rowset.
None == <<"<None>">>

\* str(x): None formats as the text None.
PyStr(x) == IF x = None THEN <<"N", "o", "n", "e">> ELSE x

IsSpace(ch) == ch \in {" ", NL}

RECURSIVE lstrip(_)
lstrip(s) == IF s # <<>> /\ IsSpace(Head(s)) THEN lstrip(Tail(s)) ELSE s

RECURSIVE rstrip(_)
rstrip(s) ==
    IF s # <<>> /\ IsSpace(s[Len(s)]) THEN rstrip(SubSeq(s, 1, Len(s) - 1)) ELSE s

\* str.strip()
strip(s) == rstrip(lstrip(s))

\* The characters of the model in code-point order.
Alphabet == <<NL, " ", "-", "1", "2", "3", "4", "<None>", "N", "_", BT,
              "a", "b", "c", "d", "e", "f", "g", "i", "k", "o", "p", "u", "x", "y">>

Ord(ch) == CHOOSE i \in 1..Len(Alphabet) : Alphabet[i] = ch

\* s < t as Python compares str
RECURSIVE LessStr(_, _)
LessStr(s, t) ==
    IF t = <<>> THEN FALSE
    ELSE IF s = <<>> THEN TRUE
    ELSE IF Head(s) = Head(t) THEN LessStr(Tail(s), Tail(t))
    ELSE Ord(Head(s)) < Ord(Head(t))

Range(s) == {s[i] : i \in DOMAIN s}

\* sorted(S) for a set of strings
RECURSIVE SortedStrs(_)
SortedStrs(S) ==
    IF S = {} THEN <<>>
    ELSE LET m == CHOOSE x \in S : \A y \in S \ {x} : LessStr(x, y)
         IN <<m>> \o SortedStrs(S \ {m})

\* sep.join(parts)
RECURSIVE Join(_, _)
Join(parts, sep) ==
    IF parts = <<>> THEN <<>>
    ELSE IF Len(parts) = 1 THEN parts[1]
    ELSE parts[1] \o sep \o Join(Tail(parts), sep)

\* str(n) for a small positive integer
Digit(d) == CASE d = 0 -> "0" [] d = 1 -> "1" [] d = 2 -> "2" [] d = 3 -> "3"
              [] d = 4 -> "4" [] d = 5 -> "5" [] d = 6 -> "6" [] d = 7 -> "7"
              [] d = 8 -> "8" [] d = 9 -> "9"

RECURSIVE IntStr(_)
IntStr(n) == IF n < 10 THEN <<Digit(n)>> ELSE IntStr(n \div 10) \o <<Digit(n % 10)>>

----------------------------------------------------------------------------
(* modeler/databricks_client.py *)

\* ident.replace(BT, BT BT)
RECURSIVE EscapeBackticks(_)
EscapeBackticks(s) ==
    IF s = <<>> THEN <<>>
    ELSE (IF Head(s) = BT THEN <<BT, BT>> ELSE <<Head(s)>>)
         \o EscapeBackticks(Tail(s))

quote_ident(ident) == <<BT>> \o EscapeBackticks(ident) \o <<BT>>

quote_3part(cat, sch, table) ==
    quote_ident(cat) \o <<".">> \o quote_ident(sch) \o <<".">> \o quote_ident(table)

----------------------------------------------------------------------------
(* The warehouse's information schema (DatabricksClient.fetch_columns,     *)
(* fetch_constraints): four rowsets, each a sequence of rows in arrival    *)
(* order.  The queries have no ORDER BY, so the arrival order is free.     *)

ColRow(t, c, ty, nl, pos) ==
    [table_name |-> t, column_name |-> c, data_type |-> ty, is_nullable |-> nl,
     ordinal_position |-> pos]

TcRow(t, cn, ty) == [table_name |-> t, constraint_name |-> cn, constraint_type |-> ty]

KcuRow(cn, t, c, pos) ==
    [constraint_name |-> cn, table_name |-> t, column_name |-> c,
     ordinal_position |-> pos]

RcRow(cn, un) == [constraint_name |-> cn, unique_constraint_name |-> un]

\* A schema with a parent table a (key id, unique (id, k)), a child table b with
\* a one-column and a two-column foreign key to a, and a table c whose only
\* column has a name of white space.
FullCatalog ==
    [columns |-> << ColRow(<<"a">>, <<"i", "d">>, <<"BIGINT">>, "NO", 1),
                    ColRow(<<"a">>, <<"k">>, <<"STRING">>, "YES", 2),
                    ColRow(<<"b">>, <<"x">>, <<"BIGINT">>, "NO", 1),
                    ColRow(<<"b">>, <<"y">>, <<"STRING">>, "YES", 2),
                    ColRow(<<"c">>, <<" ">>, <<"STRING">>, "YES", 1) >>,
     tc |-> << TcRow(<<"a">>, <<"p">>, "PRIMARY KEY"),
               TcRow(<<"a">>, <<"u">>, "UNIQUE"),
               TcRow(<<"b">>, <<"f">>, "FOREIGN KEY"),
               TcRow(<<"b">>, <<"g">>, "FOREIGN KEY") >>,
     kcu |-> << KcuRow(<<"p">>, <<"a">>, <<"i", "d">>, 1),
                KcuRow(<<"u">>, <<"a">>, <<"i", "d">>, 1),
                KcuRow(<<"u">>, <<"a">>, <<"k">>, 2),
                KcuRow(<<"f">>, <<"b">>, <<"x">>, 1),
                KcuRow(<<"g">>, <<"b">>, <<"x">>, 1),
                KcuRow(<<"g">>, <<"b">>, <<"y">>, 2) >>,
     rc |-> << RcRow(<<"f">>, <<"p">>),
               RcRow(<<"g">>, <<"u">>) >>]

RowsetNames == {"columns", "tc", "kcu", "rc"}

\* seq without its i-th element
RemoveAt(seq, i) == SubSeq(seq, 1, i - 1) \o SubSeq(seq, i + 1, Len(seq))

\* seq with its i-th and (i+1)-th elements exchanged
SwapAt(seq, i) ==
    [j \in DOMAIN seq |-> IF j = i THEN seq[i + 1] ELSE IF j = i + 1 THEN seq[i] ELSE seq[j]]

----------------------------------------------------------------------------
(* modeler/erd.py: fetch_model_metadata *)

\* Series.str.upper() on the constraint types the warehouse reports
StrUpper(ty) ==
    CASE ty = "primary key" -> "PRIMARY KEY"
      [] ty = "foreign key" -> "FOREIGN KEY"
      [] ty = "unique" -> "UNIQUE"
      [] OTHER -> ty

\* One step of the insertion sort: row put after the rows whose ordinal
\* position is not greater.
RECURSIVE InsertByOrdinal(_, _)
InsertByOrdinal(sorted, row) ==
    IF sorted = <<>> THEN <<row>>
    ELSE IF Head(sorted).ordinal_position <= row.ordinal_position
         THEN <<Head(sorted)>> \o InsertByOrdinal(Tail(sorted), row)
         ELSE <<row>> \o sorted

RECURSIVE SortFrom(_, _)
SortFrom(sorted, rows) ==
    IF rows = <<>> THEN sorted
    ELSE SortFrom(InsertByOrdinal(sorted, Head(rows)), Tail(rows))

\* Mutant of sort_values: the rows are left in arrival order.
sort_values_Arrival(rows) == rows

\* group.sort_values("ordinal_position"): ascending; numpy sorts the short
\* arrays of a group by insertion, which leaves equal keys in arrival order.
sort_values(rows) == SortFrom(<<>>, rows)

ColumnNames(rows) == [i \in DOMAIN rows |-> PyStr(rows[i].column_name)]

\* lines 17-19
pk_constraints(rs) ==
    {r.constraint_name : r \in {q \in Range(rs.tc) : StrUpper(q.constraint_type) = "PRIMARY KEY"}}

\* line 20
pk_kcu(rs) == LET Keep(r) == r.constraint_name \in pk_constraints(rs) IN SelectSeq(rs.kcu, Keep)

\* lines 21-24 with line 68: pk_by_table.get(table_name, [])
pk_by_table_get(rs, table_name) ==
    LET Keep(r) == r.table_name = table_name
    IN ColumnNames(sort_values(SelectSeq(pk_kcu(rs), Keep)))

\* lines 27-29
fk_constraints(rs) ==
    {r.constraint_name : r \in {q \in Range(rs.tc) : StrUpper(q.constraint_type) = "FOREIGN KEY"}}

\* line 30
child_kcu(rs) == LET Keep(r) == r.constraint_name \in fk_constraints(rs) IN SelectSeq(rs.kcu, Keep)

\* line 34: the non-null unique_constraint_name values
unique_constraints(rs) ==
    {PyStr(r.unique_constraint_name) : r \in {q \in Range(rs.rc) : q.unique_constraint_name # None}}

\* lines 35-37
unique_tc(rs) == LET Keep(r) == r.constraint_name \in unique_constraints(rs) IN SelectSeq(rs.tc, Keep)

\* line 38
parent_kcu(rs) == LET Keep(r) == r.constraint_name \in unique_constraints(rs) IN SelectSeq(rs.kcu, Keep)

\* lines 40-44 with line 59: parent_cols_by_constraint.get(uk_name, [])
parent_cols_get(rs, uk_name) ==
    LET Keep(r) == r.constraint_name = uk_name
    IN ColumnNames(sort_values(SelectSeq(parent_kcu(rs), Keep)))

\* lines 46-48 with line 60: parent_table_by_constraint.get(uk_name, ""); of
\* several rows of one constraint name the dict keeps the last
parent_table_get(rs, uk_name) ==
    LET Keep(r) == r.constraint_name = uk_name
        rows == SelectSeq(unique_tc(rs), Keep)
    IN IF rows = <<>> THEN <<>> ELSE PyStr(rows[Len(rows)].table_name)

Relationship(child, parent, ccols, pcols, name) ==
    [child_table |-> child, parent_table |-> parent, child_cols |-> ccols,
     parent_cols |-> pcols, name |-> name]

\* Mutant of RelationshipOfRow: line 61 without the comparison of the two lengths.
RelationshipOfRow_NoLengthCheck(rs, rc) ==
    LET fk_name == PyStr(rc.constraint_name)
        uk_name == IF rc.unique_constraint_name # None
                   THEN PyStr(rc.unique_constraint_name) ELSE None
    IN IF fk_name \notin fk_constraints(rs) \/ uk_name = None \/ uk_name = <<>>
       THEN <<>>
       ELSE LET Keep(r) == r.constraint_name = fk_name
                child_group == sort_values(SelectSeq(child_kcu(rs), Keep))
                child_cols == ColumnNames(child_group)
                parent_cols == parent_cols_get(rs, uk_name)
                parent_table == parent_table_get(rs, uk_name)
            IN IF parent_table # <<>> /\ child_cols # <<>> /\ parent_cols # <<>>
               THEN << Relationship(PyStr(child_group[1].table_name), parent_table,
                                    child_cols, parent_cols, fk_name) >>
               ELSE <<>>

\* Mutant of RelationshipOfRow: line 61 without the test of parent_table.
RelationshipOfRow_NoParentTable(rs, rc) ==
    LET fk_name == PyStr(rc.constraint_name)
        uk_name == IF rc.unique_constraint_name # None
                   THEN PyStr(rc.unique_constraint_name) ELSE None
    IN IF fk_name \notin fk_constraints(rs) \/ uk_name = None \/ uk_name = <<>>
       THEN <<>>
       ELSE LET Keep(r) == r.constraint_name = fk_name
                child_group == sort_values(SelectSeq(child_kcu(rs), Keep))
                child_cols == ColumnNames(child_group)
                parent_cols == parent_cols_get(rs, uk_name)
                parent_table == parent_table_get(rs, uk_name)
            IN IF /\ child_cols # <<>>
                  /\ parent_cols # <<>>
                  /\ Len(child_cols) = Len(parent_cols)
               THEN << Relationship(PyStr(child_group[1].table_name), parent_table,
                                    child_cols, parent_cols, fk_name) >>
               ELSE <<>>

\* lines 53-62: what one referential_constraints row adds to relationships
RelationshipOfRow(rs, rc) ==
    LET fk_name == PyStr(rc.constraint_name)
        uk_name == IF rc.unique_constraint_name # None
                   THEN PyStr(rc.unique_constraint_name) ELSE None
    IN IF fk_name \notin fk_constraints(rs) \/ uk_name = None \/ uk_name = <<>>
       THEN <<>>
       ELSE LET Keep(r) == r.constraint_name = fk_name
                child_group == sort_values(SelectSeq(child_kcu(rs), Keep))
                child_cols == ColumnNames(child_group)
                parent_cols == parent_cols_get(rs, uk_name)
                parent_table == parent_table_get(rs, uk_name)
            IN IF /\ parent_table # <<>>
                  /\ child_cols # <<>>
                  /\ parent_cols # <<>>
                  /\ Len(child_cols) = Len(parent_cols)
               THEN << Relationship(PyStr(child_group[1].table_name), parent_table,
                                    child_cols, parent_cols, fk_name) >>
               ELSE <<>>

\* lines 51-62: the loop over rc_df.iterrows(), in arrival order
RECURSIVE RelationshipsFrom(_, _)
RelationshipsFrom(rs, rcs) ==
    IF rcs = <<>> THEN <<>>
    ELSE RelationshipOfRow(rs, Head(rcs)) \o RelationshipsFrom(rs, Tail(rcs))

relationships_of(rs) == RelationshipsFrom(rs, rs.rc)

\* line 70: the child columns of the relationships whose child is the table
fk_cols_set(rels, table_name) ==
    UNION {Range(r.child_cols) : r \in {q \in Range(rels) : q.child_table = table_name}}

\* lines 66-82: one table of the graph.  pk_columns is list(set(...)): its
\* order is the set's iteration order, so it is kept as the set.
TableOf(rs, rels, table_name) ==
    LET Keep(r) == r.table_name = table_name
        group == sort_values(SelectSeq(rs.columns, Keep))
        pk_cols == Range(pk_by_table_get(rs, table_name))
        fks == fk_cols_set(rels, table_name)
    IN [name |-> PyStr(table_name),
        columns |-> [i \in DOMAIN group |->
            [name |-> PyStr(group[i].column_name),
             data_type |-> PyStr(group[i].data_type),
             is_nullable |-> (group[i].is_nullable = "YES"),
             is_pk |-> (PyStr(group[i].column_name) \in pk_cols),
             is_fk |-> (PyStr(group[i].column_name) \in fks)]],
        pk_columns |-> pk_cols]

\* lines 8-84.  tables is a dict in insertion order: groupby yields the table
\* names in ascending order.
fetch_model_metadata(rs) ==
    LET rels == relationships_of(rs)
        names == SortedStrs({r.table_name : r \in Range(rs.columns)})
    IN [tables |-> [i \in DOMAIN names |-> TableOf(rs, rels, names[i])],
        relationships |-> rels]

\* lines 87-111
metadata_to_model(md) ==
    [tables |-> [i \in DOMAIN md.tables |->
        [name |-> md.tables[i].name,
         columns |-> [j \in DOMAIN md.tables[i].columns |->
            [name |-> md.tables[i].columns[j].name,
             data_type |-> md.tables[i].columns[j].data_type,
             nullable |-> md.tables[i].columns[j].is_nullable,
             is_pk |-> md.tables[i].columns[j].is_pk]]]],
     relationships |-> md.relationships]

----------------------------------------------------------------------------
(* modeler/erd.py: the DDL builders *)

\* [f"`{c}`" for c in cols]
Backticked(cols) == [i \in DOMAIN cols |-> <<BT>> \o PyStr(cols[i]) \o <<BT>>]

\* lines 195-211
build_fk_sql(cat, sch, child_table, parent_table, child_cols, parent_cols, constraint_name) ==
    LET child_3p == quote_3part(cat, sch, child_table)
        parent_3p == quote_3part(cat, sch, parent_table)
        cols_child == Join(Backticked(child_cols), <<",", " ">>)
        cols_parent == Join(Backticked(parent_cols), <<",", " ">>)
    IN <<"ALTER TABLE ">> \o child_3p \o <<" ADD CONSTRAINT ">>
       \o <<BT>> \o PyStr(constraint_name) \o <<BT>>
       \o <<" FOREIGN KEY (">> \o cols_child \o <<") REFERENCES ">>
       \o parent_3p \o <<" (">> \o cols_parent \o <<")">>

\* Mutant of ColSql: NOT NULL is added for the nullable columns.
ColSql_Inverted(col) ==
    <<BT>> \o PyStr(col.name) \o <<BT>> \o <<" ">> \o strip(col.data_type)
    \o (IF col.nullable THEN <<" NOT NULL">> ELSE <<>>)

\* lines 223-228: one column definition
ColSql(col) ==
    <<BT>> \o PyStr(col.name) \o <<BT>> \o <<" ">> \o strip(col.data_type)
    \o (IF col.nullable THEN <<>> ELSE <<" NOT NULL">>)

\* lines 214-236, with if_not_exists at its default True
build_create_table_sql(cat, sch, table_name, columns, primary_key_cols) ==
    LET cols_sql == [i \in DOMAIN columns |-> ColSql(columns[i])]
        pk_sql == IF primary_key_cols # <<>>
                  THEN <<",", " CONSTRAINT ">> \o <<BT, "p", "k", "_">>
                       \o PyStr(table_name) \o <<BT>> \o <<" PRIMARY KEY (">>
                       \o Join(Backticked(primary_key_cols), <<",", " ">>) \o <<")">>
                  ELSE <<>>
        full_name == quote_3part(cat, sch, table_name)
    IN <<"CREATE TABLE ", "IF NOT EXISTS ">> \o full_name \o <<" (", NL, " ", " ">>
       \o Join(cols_sql, <<",", NL, " ", " ">>) \o pk_sql \o <<NL, ")">>

\* line 245: the column has a name and a data type once white space is stripped
ValidColumn(c) == strip(PyStr(c.name)) # <<>> /\ strip(PyStr(c.data_type)) # <<>>

\* line 247
PkColumn(c) == c.is_pk /\ strip(PyStr(c.name)) # <<>>

\* Mutant of TableStmts: line 248 tests pk_cols where it should test cols.
TableStmts_NeedsKey(cat, sch, t) ==
    LET valid == SelectSeq(t.columns, ValidColumn)
        cols == [i \in DOMAIN valid |->
                    [name |-> valid[i].name, data_type |-> valid[i].data_type,
                     nullable |-> valid[i].nullable]]
        pks == SelectSeq(t.columns, PkColumn)
        pk_cols == [i \in DOMAIN pks |-> pks[i].name]
    IN IF pk_cols # <<>>
       THEN << build_create_table_sql(cat, sch, t.name, cols, pk_cols) >>
       ELSE <<>>

\* Mutant of TableStmts: line 248 is left out, a table without a valid column
\* gets its CREATE TABLE too.
TableStmts_Always(cat, sch, t) ==
    LET valid == SelectSeq(t.columns, ValidColumn)
        cols == [i \in DOMAIN valid |->
                    [name |-> valid[i].name, data_type |-> valid[i].data_type,
                     nullable |-> valid[i].nullable]]
        pks == SelectSeq(t.columns, PkColumn)
        pk_cols == [i \in DOMAIN pks |-> pks[i].name]
    IN << build_create_table_sql(cat, sch, t.name, cols, pk_cols) >>

\* lines 241-249: the statements of one table
TableStmts(cat, sch, t) ==
    LET valid == SelectSeq(t.columns, ValidColumn)
        cols == [i \in DOMAIN valid |->
                    [name |-> valid[i].name, data_type |-> valid[i].data_type,
                     nullable |-> valid[i].nullable]]
        pks == SelectSeq(t.columns, PkColumn)
        pk_cols == [i \in DOMAIN pks |-> pks[i].name]
    IN IF cols # <<>>
       THEN << build_create_table_sql(cat, sch, t.name, cols, pk_cols) >>
       ELSE <<>>

\* Mutant of ConstraintName: the suffix is the 0-based index.
ConstraintName_ZeroBased(r, i) ==
    IF r.name # None /\ r.name # <<>>
    THEN r.name
    ELSE <<"f", "k", "_">> \o PyStr(r.child_table) \o <<"_">> \o PyStr(r.parent_table)
         \o <<"_">> \o IntStr(i - 1)

\* line 251: the stored name, or the synthesized one when it is empty or None
ConstraintName(r, i) ==
    IF r.name # None /\ r.name # <<>>
    THEN r.name
    ELSE <<"f", "k", "_">> \o PyStr(r.child_table) \o <<"_">> \o PyStr(r.parent_table)
         \o <<"_">> \o IntStr(i)

\* lines 252-262: the statement of the relationship at 1-based position i
RelStmt(cat, sch, r, i) ==
    build_fk_sql(cat, sch, PyStr(r.child_table), PyStr(r.parent_table),
                 [j \in DOMAIN r.child_cols |-> PyStr(r.child_cols[j])],
                 [j \in DOMAIN r.parent_cols |-> PyStr(r.parent_cols[j])],
                 ConstraintName(r, i))

RECURSIVE CreateStmtsFrom(_, _, _)
CreateStmtsFrom(cat, sch, tables) ==
    IF tables = <<>> THEN <<>>
    ELSE TableStmts(cat, sch, Head(tables)) \o CreateStmtsFrom(cat, sch, Tail(tables))

\* Mutant of generate_sql_from_model: the two loops in the other order.
generate_sql_from_model_FksFirst(model, cat, sch) ==
    [i \in DOMAIN model.relationships |-> RelStmt(cat, sch, model.relationships[i], i)]
    \o CreateStmtsFrom(cat, sch, model.tables)

\* lines 239-263
generate_sql_from_model(model, cat, sch) ==
    CreateStmtsFrom(cat, sch, model.tables)
    \o [i \in DOMAIN model.relationships |-> RelStmt(cat, sch, model.relationships[i], i)]

----------------------------------------------------------------------------
(* app.py: the session *)

\* The catalog and the schema chosen in the sidebar (lines 68-80).
catalog == <<"m">>
schema == <<"s">>

EmptyModel == [tables |-> <<>>, relationships |-> <<>>]

NoCall == [op |-> "none"]

Init ==
    /\ rowsets = FullCatalog
    /\ edits = 0
    /\ metadata = <<>>
    /\ first = <<>>
    /\ fetched = <<>>
    /\ dm = EmptyModel
    /\ stmts = <<>>
    /\ typed = <<>>
    /\ pc = "idle"
    /\ idx = 0
    /\ attempted = <<>>
    /\ errors = <<>>
    /\ report = "none"
    /\ call = NoCall
    /\ ret = NoCall

\* A new run of the script: the locals and the messages of the last Apply are gone.
Rerun ==
    /\ pc' = "idle"
    /\ idx' = 0
    /\ attempted' = <<>>
    /\ errors' = <<>>
    /\ report' = "none"

\* Concurrent DDL elsewhere leaves the information schema without a row, before
\* the session first reads it.
DropRow(name, i) ==
    /\ pc = "idle"
    /\ edits < MaxEdits
    /\ first = <<>>
    /\ i \in DOMAIN rowsets[name]
    /\ rowsets' = [rowsets EXCEPT ![name] = RemoveAt(@, i)]
    /\ edits' = edits + 1
    /\ UNCHANGED <<fetchVars, dm, stmts, typed, applyVars, exploreVars>>

\* A referential_constraints row whose unique_constraint_name is NULL.
NullUniqueName(i) ==
    /\ pc = "idle"
    /\ edits < MaxEdits
    /\ first = <<>>
    /\ i \in DOMAIN rowsets.rc
    /\ rowsets.rc[i].unique_constraint_name # None
    /\ rowsets' = [rowsets EXCEPT !.rc[i].unique_constraint_name = None]
    /\ edits' = edits + 1
    /\ UNCHANGED <<fetchVars, dm, stmts, typed, applyVars, exploreVars>>

\* The warehouse returns the same rows in another order.
Reorder(name, i) ==
    /\ pc = "idle"
    /\ edits < MaxEdits
    /\ i \in DOMAIN rowsets[name]
    /\ i + 1 \in DOMAIN rowsets[name]
    /\ rowsets' = [rowsets EXCEPT ![name] = SwapAt(@, i)]
    /\ edits' = edits + 1
    /\ UNCHANGED <<fetchVars, dm, stmts, typed, applyVars, exploreVars>>

\* Mutant of Import: the imported model is merged into the design model; the
\* imported tables win, the other tables and the relationships are kept.
Import_Merges ==
    /\ pc = "idle"
    /\ LET m == fetch_model_metadata(rowsets)
           dm_import == metadata_to_model(m)
           Imported(t) == \E i \in DOMAIN dm_import.tables : dm_import.tables[i].name = t.name
           Other(t) == ~ Imported(t)
           merged == [tables |-> dm_import.tables \o SelectSeq(dm.tables, Other),
                      relationships |-> dm.relationships \o dm_import.relationships]
       IN /\ metadata' = <<m>>
          /\ first' = IF first = <<>> THEN <<m>> ELSE first
          /\ fetched' = <<rowsets>>
          /\ dm' = merged
          /\ stmts' = generate_sql_from_model(merged, catalog, schema)
    /\ Rerun
    /\ UNCHANGED <<catVars, typed, exploreVars>>

\* lines 365-377: Import UC into Design, and the SQL preview of the same run
Import ==
    /\ pc = "idle"
    /\ LET m == fetch_model_metadata(rowsets)
           dm_import == metadata_to_model(m)
       IN /\ metadata' = <<m>>
          /\ first' = IF first = <<>> THEN <<m>> ELSE first
          /\ fetched' = <<rowsets>>
          /\ dm' = dm_import
          /\ stmts' = generate_sql_from_model(dm_import, catalog, schema)
    /\ Rerun
    /\ UNCHANGED <<catVars, typed, exploreVars>>

NextFetch ==
    \/ \E name \in RowsetNames : \E i \in 1..6 : DropRow(name, i)
    \/ \E i \in 1..2 : NullUniqueName(i)
    \/ \E name \in RowsetNames : \E i \in 1..5 : Reorder(name, i)
    \/ Import

SpecFetch == Init /\ [][NextFetch]_vars

----------------------------------------------------------------------------
(* Reading DDL text back, as the warehouse's SQL lexer does: a backtick     *)
(* opens an identifier, a doubled backtick inside it is one backtick of    *)
(* the name, a single backtick closes it.                                  *)

RECURSIVE LexFrom(_, _, _, _)
LexFrom(text, inq, cur, acc) ==
    IF text = <<>> THEN (IF inq THEN Append(acc, cur \o <<"<open>">>) ELSE acc)
    ELSE IF ~inq
         THEN LexFrom(Tail(text), Head(text) = BT, <<>>, acc)
    ELSE IF Head(text) # BT
         THEN LexFrom(Tail(text), TRUE, Append(cur, Head(text)), acc)
    ELSE IF Len(text) >= 2 /\ text[2] = BT
         THEN LexFrom(Tail(Tail(text)), TRUE, Append(cur, BT), acc)
    ELSE LexFrom(Tail(text), FALSE, <<>>, Append(acc, cur))

\* the identifiers of a statement, in order
Idents(text) == LexFrom(text, FALSE, <<>>, <<>>)

IsCreate(s) == s # <<>> /\ s[1] = "CREATE TABLE "
IsForeignKey(s) == s # <<>> /\ s[1] = "ALTER TABLE "

\* the table a CREATE TABLE statement creates; the constraint an ALTER TABLE adds
CreatedTable(s) == Idents(s)[3]
AddedConstraint(s) == Idents(s)[4]

----------------------------------------------------------------------------
(* Claims about fetch_model_metadata *)

\* the number of key_column_usage rows of a constraint
KcuCount(rs, cn) == Cardinality({i \in DOMAIN rs.kcu : rs.kcu[i].constraint_name = cn})

\* C1: every relationship fetch_model_metadata emits has a child column list
\* and a parent column list of the same length, and that length is at least 1.
C1_ColumnListsMatch ==
    \A i \in DOMAIN metadata : \A k \in DOMAIN metadata[i].relationships :
        LET r == metadata[i].relationships[k]
        IN Len(r.child_cols) = Len(r.parent_cols) /\ Len(r.child_cols) >= 1

\* A fetch emitted a relationship from rowsets that also held a foreign key whose
\* two sides have different numbers of key columns.
C1_Witness ==
    /\ metadata # <<>>
    /\ metadata[1].relationships # <<>>
    /\ \E r \in Range(fetched[1].rc) :
          /\ r.unique_constraint_name # None
          /\ KcuCount(fetched[1], r.constraint_name) >= 1
          /\ KcuCount(fetched[1], r.unique_constraint_name) >= 1
          /\ KcuCount(fetched[1], r.constraint_name)
               # KcuCount(fetched[1], r.unique_constraint_name)

\* the referenced unique constraint of a referential_constraints row is absent
AbsentUnique(rs, r) ==
    \/ r.unique_constraint_name = None
    \/ ~ \E q \in Range(rs.tc) : q.constraint_name = r.unique_constraint_name
    \/ KcuCount(rs, r.unique_constraint_name) = 0

\* the row is a foreign key with both sides present and of the same size
CompleteForeignKey(rs, r) ==
    /\ ~ AbsentUnique(rs, r)
    /\ \E q \in Range(rs.tc) :
          q.constraint_name = r.constraint_name /\ q.constraint_type = "FOREIGN KEY"
    /\ KcuCount(rs, r.constraint_name) >= 1
    /\ KcuCount(rs, r.constraint_name) = KcuCount(rs, r.unique_constraint_name)

\* C2: a foreign key whose referenced unique constraint is absent (NULL name, no
\* table_constraints row, or no key_column_usage rows) is left out of the result;
\* the fetch still returns the graph with every other relationship and every table.
C2_AbsentParentLeftOut ==
    \A i \in DOMAIN metadata :
        LET rs == fetched[i]
            g == metadata[i]
        IN /\ \A r \in Range(rs.rc) : AbsentUnique(rs, r) =>
                 \A k \in DOMAIN g.relationships :
                     g.relationships[k].name # r.constraint_name
           /\ \A r \in Range(rs.rc) : CompleteForeignKey(rs, r) =>
                 \E k \in DOMAIN g.relationships :
                     g.relationships[k].name = r.constraint_name
           /\ {g.tables[k].name : k \in DOMAIN g.tables}
                = {row.table_name : row \in Range(rs.columns)}

\* A fetch received one foreign key with an absent parent and one complete one.
C2_Witness ==
    /\ metadata # <<>>
    /\ \E r \in Range(fetched[1].rc) : AbsentUnique(fetched[1], r)
    /\ \E r \in Range(fetched[1].rc) : CompleteForeignKey(fetched[1], r)
    /\ metadata[1].tables # <<>>

\* The statements hold exactly one CREATE TABLE per table of the graph and
\* exactly one ADD CONSTRAINT FOREIGN KEY per relationship of the graph.
CardinalityKept(g, ss) ==
    /\ Cardinality({k \in DOMAIN ss : IsCreate(ss[k])}) = Len(g.tables)
    /\ \A t \in Range(g.tables) :
          Cardinality({k \in DOMAIN ss : IsCreate(ss[k]) /\ CreatedTable(ss[k]) = t.name}) = 1
    /\ Cardinality({k \in DOMAIN ss : IsForeignKey(ss[k])}) = Len(g.relationships)
    /\ \A r \in Range(g.relationships) :
          Cardinality({k \in DOMAIN ss :
                          IsForeignKey(ss[k]) /\ AddedConstraint(ss[k]) = r.name}) = 1

NonEmptyColumns(rs) ==
    \A row \in Range(rs.columns) : row.column_name # <<>> /\ row.data_type # <<>>

NonBlankColumns(rs) ==
    \A row \in Range(rs.columns) :
        strip(row.column_name) # <<>> /\ strip(row.data_type) # <<>>

\* C9 as claimed: when every column row has a non-empty name and data type,
\* fetch, then convert, then generate yields one CREATE TABLE per table and one
\* ADD CONSTRAINT FOREIGN KEY per relationship of the graph.
C9_Original ==
    \A i \in DOMAIN metadata :
        NonEmptyColumns(fetched[i]) => CardinalityKept(metadata[i], stmts)

\* C9 amended: the same, when every column row has a name and a data type that
\* are not blank, that is, not empty once leading and trailing white space is
\* stripped.
C9_CardinalityKept ==
    \A i \in DOMAIN metadata :
        NonBlankColumns(fetched[i]) => CardinalityKept(metadata[i], stmts)

\* An import of non-blank columns that gave two tables and a relationship.
C9_Witness ==
    /\ metadata # <<>>
    /\ NonBlankColumns(fetched[1])
    /\ Len(metadata[1].tables) >= 2
    /\ Len(metadata[1].relationships) >= 1
    /\ stmts # <<>>

\* the table set with each table's column order and flags, and the
\* relationship sequence
GraphOrder(g) ==
    [tables |-> [k \in DOMAIN g.tables |->
                    [name |-> g.tables[k].name, columns |-> g.tables[k].columns]],
     relationships |-> g.relationships]

\* C10 as claimed: the graph (tables, column order and flags, relationship
\* sequence) is the same whatever the arrival order of the same rows.
C10_Original ==
    (first # <<>> /\ metadata # <<>>) => GraphOrder(metadata[1]) = GraphOrder(first[1])

\* the ordinal position the rowsets record for a column of a table / of a constraint
ColumnOrdinal(rs, t, c) ==
    (CHOOSE row \in Range(rs.columns) : row.table_name = t /\ row.column_name = c)
        .ordinal_position
KeyOrdinal(rs, cn, c) ==
    (CHOOSE row \in Range(rs.kcu) : row.constraint_name = cn /\ row.column_name = c)
        .ordinal_position

\* position of the referential_constraints row of a constraint in arrival order
RcPosition(rs, cn) == CHOOSE i \in DOMAIN rs.rc : rs.rc[i].constraint_name = cn

UniqueNameOf(rs, cn) == rs.rc[RcPosition(rs, cn)].unique_constraint_name

\* C10 amended: for the same rows in any arrival order the graph has the same
\* tables with the same column order and flags and the same relationships; within
\* each table and each constraint the columns are in ordinal-position order; the
\* relationship sequence is in the arrival order of the referential_constraints rows.
C10_OrderIndependence ==
    /\ (first # <<>> /\ metadata # <<>>) =>
          /\ GraphOrder(metadata[1]).tables = GraphOrder(first[1]).tables
          /\ Range(metadata[1].relationships) = Range(first[1].relationships)
          /\ Len(metadata[1].relationships) = Len(first[1].relationships)
    /\ \A i \in DOMAIN metadata :
          LET rs == fetched[i]
              g == metadata[i]
          IN /\ \A t \in Range(g.tables) : \A j \in 1..(Len(t.columns) - 1) :
                   ColumnOrdinal(rs, t.name, t.columns[j].name)
                     < ColumnOrdinal(rs, t.name, t.columns[j + 1].name)
             /\ \A r \in Range(g.relationships) : \A j \in 1..(Len(r.child_cols) - 1) :
                   /\ KeyOrdinal(rs, r.name, r.child_cols[j])
                        < KeyOrdinal(rs, r.name, r.child_cols[j + 1])
                   /\ KeyOrdinal(rs, UniqueNameOf(rs, r.name), r.parent_cols[j])
                        < KeyOrdinal(rs, UniqueNameOf(rs, r.name), r.parent_cols[j + 1])
             /\ \A j \in 1..(Len(g.relationships) - 1) :
                   RcPosition(rs, g.relationships[j].name)
                     < RcPosition(rs, g.relationships[j + 1].name)

\* A second fetch received the referential_constraints rows and the rows of a
\* two-column key in another order than the first.
C10_Witness ==
    /\ first # <<>>
    /\ metadata # <<>>
    /\ metadata[1].relationships # first[1].relationships
    /\ \E i, j \in DOMAIN fetched[1].kcu :
          /\ i < j
          /\ fetched[1].kcu[i].constraint_name = fetched[1].kcu[j].constraint_name
          /\ fetched[1].kcu[i].ordinal_position > fetched[1].kcu[j].ordinal_position
    /\ \E r \in Range(metadata[1].relationships) : Len(r.child_cols) = 2

----------------------------------------------------------------------------
(* app.py: Design mode *)

EditorRow(n, ty, nl, pk) == [name |-> n, data_type |-> ty, nullable |-> nl, is_pk |-> pk]

\* What the user types as table name: a name, the same name after a space, blank.
TypedNames == { <<"a">>, <<" ", "a">>, <<" ">> }

\* What the data editor holds: a key column and a column whose name has a
\* backtick; or a single row without a name.
Sheets ==
    { << EditorRow(<<"i", "d">>, <<"BIGINT">>, FALSE, TRUE),
         EditorRow(<<"x", BT>>, <<"STRING">>, TRUE, FALSE) >>,
      << EditorRow(<<" ">>, <<"STRING">>, TRUE, FALSE) >> }

TableNames(model) == {model.tables[i].name : i \in DOMAIN model.tables}

TableAt(model, name) == CHOOSE i \in DOMAIN model.tables : model.tables[i].name = name

\* d[key] = value on a dict in insertion order
DictSet(tables, entry) ==
    IF \E i \in DOMAIN tables : tables[i].name = entry.name
    THEN [i \in DOMAIN tables |-> IF tables[i].name = entry.name THEN entry ELSE tables[i]]
    ELSE Append(tables, entry)

\* del d[key]
DictDel(tables, key) == LET Keep(t) == t.name # key IN SelectSeq(tables, Keep)

\* lines 297-306: the columns kept from the editor
UpsertColumns(edited) ==
    LET Named(r) == strip(PyStr(r.name)) # <<>>
        rows == SelectSeq(edited, Named)
    IN [i \in DOMAIN rows |->
           [name |-> strip(PyStr(rows[i].name)),
            data_type |-> strip(PyStr(rows[i].data_type)),
            nullable |-> rows[i].nullable,
            is_pk |-> rows[i].is_pk]]

\* lines 294-308, and the SQL preview of the same run (line 375)
UpsertTable(table_name, edited) ==
    /\ pc = "idle"
    /\ typed' = table_name
    /\ dm' = IF strip(table_name) # <<>>
             THEN [dm EXCEPT !.tables =
                      DictSet(@, [name |-> strip(table_name),
                                  columns |-> UpsertColumns(edited)])]
             ELSE dm
    /\ stmts' = generate_sql_from_model(dm', catalog, schema)
    /\ Rerun
    /\ UNCHANGED <<catVars, fetchVars, exploreVars>>

\* line 319: the relationships kept when table_name is removed
KeptRelationships(rels, table_name) ==
    LET Keep(r) == r.child_table # table_name /\ r.parent_table # table_name
    IN SelectSeq(rels, Keep)

\* lines 316-320, and the SQL preview of the same run
RemoveTable(table_name) ==
    /\ pc = "idle"
    /\ typed' = table_name
    /\ dm' = IF strip(table_name) \in TableNames(dm)
             THEN [tables |-> DictDel(dm.tables, strip(table_name)),
                   relationships |-> KeptRelationships(dm.relationships, table_name)]
             ELSE dm
    /\ stmts' = generate_sql_from_model(dm', catalog, schema)
    /\ Rerun
    /\ UNCHANGED <<catVars, fetchVars, exploreVars>>

\* lines 331-341: what a column select box can return: one of the options, or
\* None when there is none
Selectable(options) == IF options = <<>> THEN {None} ELSE Range(options)

ColumnOptions(model, name) ==
    LET cols == model.tables[TableAt(model, name)].columns
    IN [i \in DOMAIN cols |-> cols[i].name]

\* line 342: the default of the constraint name input
DefaultFkName(child, parent) == <<"f", "k", "_">> \o child \o <<"_">> \o parent

\* lines 327-351, and the SQL preview of the same run
AddRelationship(child, parent, selected_child, selected_parent, fk_name) ==
    /\ pc = "idle"
    /\ dm.tables # <<>>
    /\ Len(dm.relationships) < MaxRels
    /\ child \in TableNames(dm)
    /\ parent \in TableNames(dm)
    /\ Len(selected_child) = Len(selected_parent)
    /\ \A i \in DOMAIN selected_child :
          /\ selected_child[i] \in Selectable(ColumnOptions(dm, child))
          /\ selected_parent[i] \in Selectable(ColumnOptions(dm, parent))
    /\ fk_name \in {<<>>, DefaultFkName(child, parent)}
    /\ dm' = [dm EXCEPT !.relationships =
                 Append(@, Relationship(child, parent, selected_child, selected_parent,
                                        fk_name))]
    /\ stmts' = generate_sql_from_model(dm', catalog, schema)
    /\ Rerun
    /\ UNCHANGED <<catVars, fetchVars, typed, exploreVars>>

\* lines 379-383: Apply to Unity Catalog
ApplyClick ==
    /\ pc = "idle"
    /\ report = "none"
    /\ IF stmts = <<>>
       THEN /\ report' = "nothing"
            /\ UNCHANGED <<pc, idx, attempted, errors>>
       ELSE /\ pc' = "applying"
            /\ idx' = 1
            /\ attempted' = <<>>
            /\ errors' = <<>>
            /\ UNCHANGED report
    /\ UNCHANGED <<catVars, fetchVars, dm, stmts, typed, exploreVars>>

\* lines 385-387: client.run_sql(s) returns
RunSqlOk ==
    /\ pc = "applying"
    /\ idx <= Len(stmts)
    /\ attempted' = Append(attempted, [sql |-> stmts[idx], failed |-> FALSE])
    /\ idx' = idx + 1
    /\ UNCHANGED <<catVars, fetchVars, dm, stmts, typed, pc, errors, report, exploreVars>>

\* Mutant of RunSqlFails: the first failure ends the loop.
RunSqlFails_Aborts ==
    /\ pc = "applying"
    /\ idx <= Len(stmts)
    /\ attempted' = Append(attempted, [sql |-> stmts[idx], failed |-> TRUE])
    /\ errors' = Append(errors, stmts[idx] \o <<NL, "-- ERROR: ", "exc">>)
    /\ idx' = Len(stmts) + 1
    /\ UNCHANGED <<catVars, fetchVars, dm, stmts, typed, pc, report, exploreVars>>

\* lines 385-389: client.run_sql(s) raises
RunSqlFails ==
    /\ pc = "applying"
    /\ idx <= Len(stmts)
    /\ attempted' = Append(attempted, [sql |-> stmts[idx], failed |-> TRUE])
    /\ errors' = Append(errors, stmts[idx] \o <<NL, "-- ERROR: ", "exc">>)
    /\ idx' = idx + 1
    /\ UNCHANGED <<catVars, fetchVars, dm, stmts, typed, pc, report, exploreVars>>

\* lines 390-394
ApplyReport ==
    /\ pc = "applying"
    /\ idx > Len(stmts)
    /\ report' = IF errors # <<>> THEN "error" ELSE "success"
    /\ pc' = "idle"
    /\ UNCHANGED <<catVars, fetchVars, dm, stmts, typed, idx, attempted, errors,
                   exploreVars>>

\* lines 333-341: the form as Streamlit first shows it: one column pair, each
\* select box at its first option, or None when the table has no column.
DefaultSelection(model, name) ==
    LET options == ColumnOptions(model, name)
    IN << IF options = <<>> THEN None ELSE options[1] >>

\* The user picks the two tables, keeps or clears the constraint name, and clicks.
AddRelationshipClick ==
    \E c, p \in TableNames(dm) : \E fk \in {<<>>, DefaultFkName(c, p)} :
        AddRelationship(c, p, DefaultSelection(dm, c), DefaultSelection(dm, p), fk)

Next ==
    \/ \E n \in TypedNames : \E sheet \in Sheets : UpsertTable(n, sheet)
    \/ \E n \in TypedNames : RemoveTable(n)
    \/ AddRelationshipClick
    \/ Import

\* The design session works on a schema that holds the tables a and b only.
DesignCatalog ==
    LET Keep(r) == r.table_name # <<"c">>
    IN [FullCatalog EXCEPT !.columns = SelectSeq(@, Keep)]

InitDesign ==
    /\ rowsets = DesignCatalog
    /\ edits = 0
    /\ metadata = <<>>
    /\ first = <<>>
    /\ fetched = <<>>
    /\ dm = EmptyModel
    /\ stmts = <<>>
    /\ typed = <<>>
    /\ pc = "idle"
    /\ idx = 0
    /\ attempted = <<>>
    /\ errors = <<>>
    /\ report = "none"
    /\ call = NoCall
    /\ ret = NoCall

Spec == InitDesign /\ [][Next]_vars

NextApply ==
    \/ \E n \in TypedNames : \E sheet \in Sheets : UpsertTable(n, sheet)
    \/ Import
    \/ ApplyClick
    \/ RunSqlOk
    \/ RunSqlFails
    \/ ApplyReport

SpecApply == InitDesign /\ [][NextApply]_vars

----------------------------------------------------------------------------
(* Claims about generate_sql_from_model and the Design handlers *)

Creates(ss) == SelectSeq(ss, IsCreate)
ForeignKeys(ss) == SelectSeq(ss, IsForeignKey)

\* the child table, the child columns, the parent table of an ALTER TABLE
\* statement that lists n column pairs
FkChild(s) == Idents(s)[3]
FkChildColumns(s, n) == SubSeq(Idents(s), 5, 4 + n)
FkParent(s, n) == Idents(s)[7 + n]

\* C3: in the generated sequence every CREATE TABLE comes before every ADD
\* CONSTRAINT FOREIGN KEY; the CREATE statements follow the model's table order
\* and the foreign-key statements follow the relationship sequence.
C3_CreatesBeforeForeignKeys ==
    /\ \A i, j \in DOMAIN stmts :
          (IsCreate(stmts[i]) /\ IsForeignKey(stmts[j])) => i < j
    /\ \A i \in DOMAIN stmts : IsCreate(stmts[i]) \/ IsForeignKey(stmts[i])
    /\ LET cs == Creates(stmts)
       IN \A i, j \in DOMAIN cs :
             i < j => /\ CreatedTable(cs[i]) \in TableNames(dm)
                      /\ CreatedTable(cs[j]) \in TableNames(dm)
                      /\ TableAt(dm, CreatedTable(cs[i])) < TableAt(dm, CreatedTable(cs[j]))
    /\ LET fs == ForeignKeys(stmts)
       IN /\ Len(fs) = Len(dm.relationships)
          /\ \A i \in DOMAIN fs :
                LET r == dm.relationships[i]
                    n == Len(r.child_cols)
                IN /\ FkChild(fs[i]) = r.child_table
                   /\ FkChildColumns(fs[i], n) = [j \in 1..n |-> PyStr(r.child_cols[j])]
                   /\ FkParent(fs[i], n) = r.parent_table

\* Two CREATE TABLE and two different foreign keys, the tables not in name order.
C3_Witness ==
    /\ Len(Creates(stmts)) >= 2
    /\ Len(ForeignKeys(stmts)) >= 2
    /\ dm.relationships[1].child_table # dm.relationships[2].child_table
    /\ LessStr(dm.tables[2].name, dm.tables[1].name)

\* the identifiers a CREATE TABLE of table t is to hold, and those of the
\* ADD CONSTRAINT of the relationship r at position i
TableIdents(t) ==
    LET valid == SelectSeq(t.columns, ValidColumn)
        pks == SelectSeq(t.columns, PkColumn)
    IN <<catalog, schema, t.name>> \o [i \in DOMAIN valid |-> valid[i].name]
       \o (IF pks = <<>> THEN <<>>
           ELSE << <<"p", "k", "_">> \o t.name >> \o [i \in DOMAIN pks |-> pks[i].name])

Decimal(i) == << <<"1">>, <<"2">>, <<"3">>, <<"4">>, <<"5">> >>[i]

\* fk_<child_table>_<parent_table>_<i>
SynthesizedName(r, i) ==
    <<"f", "k", "_">> \o r.child_table \o <<"_">> \o r.parent_table \o <<"_">> \o Decimal(i)

ExpectedName(r, i) == IF r.name = <<>> \/ r.name = None THEN SynthesizedName(r, i) ELSE r.name

RelationshipIdents(r, i) ==
    <<catalog, schema, r.child_table, ExpectedName(r, i)>>
    \o [j \in DOMAIN r.child_cols |-> PyStr(r.child_cols[j])]
    \o <<catalog, schema, r.parent_table>>
    \o [j \in DOMAIN r.parent_cols |-> PyStr(r.parent_cols[j])]

\* C4: every identifier of the generated DDL is wrapped in backticks with its
\* own backticks doubled, so reading a statement back gives exactly the catalog,
\* schema, table, column and constraint names that were put in.
C4_IdentifiersEscaped ==
    \A s \in Range(stmts) :
        \/ \E k \in DOMAIN dm.tables : Idents(s) = TableIdents(dm.tables[k])
        \/ \E k \in DOMAIN dm.relationships :
              Idents(s) = RelationshipIdents(dm.relationships[k], k)

\* C5: when Remove Table removes a table of the model, whatever name was typed,
\* the model afterwards has no relationship whose child or parent is that table.
C5_RemoveCascades ==
    [][ \A n \in TypedNames :
          (RemoveTable(n) /\ strip(n) \in TableNames(dm)) =>
             \A r \in Range(dm'.relationships) :
                r.child_table # strip(n) /\ r.parent_table # strip(n) ]_vars

\* C6: the relationship at 0-based position i gets the constraint name
\* fk_<child_table>_<parent_table>_<i+1> when its stored name is empty or
\* missing, and its stored name when that is not empty.
C6_ConstraintNames ==
    LET fs == ForeignKeys(stmts)
    IN /\ Len(fs) = Len(dm.relationships)
       /\ \A k \in DOMAIN fs :
             AddedConstraint(fs[k]) = ExpectedName(dm.relationships[k], k)

\* A named relationship followed by an unnamed one.
C6_Witness ==
    /\ Len(dm.relationships) = 2
    /\ dm.relationships[1].name # <<>>
    /\ dm.relationships[2].name = <<>>
    /\ Len(ForeignKeys(stmts)) = 2

----------------------------------------------------------------------------
(* Claims about the Apply loop *)

Failed(log) == LET Bad(a) == a.failed IN SelectSeq(log, Bad)

\* text begins with prefix
StartsWith(text, prefix) ==
    Len(text) >= Len(prefix) /\ SubSeq(text, 1, Len(prefix)) = prefix

\* C7: the Apply loop hands every statement to the warehouse exactly once, in
\* order, whether or not earlier ones failed; the error list has one entry per
\* failed statement, in order, each with the statement's text; success is
\* reported only when no statement failed.
C7_ApplyAttemptsAll ==
    /\ pc = "applying" =>
          [k \in DOMAIN attempted |-> attempted[k].sql] = SubSeq(stmts, 1, idx - 1)
    /\ report \in {"success", "error"} =>
          [k \in DOMAIN attempted |-> attempted[k].sql] = stmts
    /\ Len(errors) = Len(Failed(attempted))
    /\ \A k \in DOMAIN errors : StartsWith(errors[k], Failed(attempted)[k].sql)
    /\ report = "success" => Failed(attempted) = <<>>
    /\ report = "error" => Failed(attempted) # <<>>

\* An Apply of three statements or more whose first statement failed and whose
\* last succeeded.
C7_Witness ==
    /\ report = "error"
    /\ Len(stmts) >= 3
    /\ attempted[1].failed
    /\ ~ attempted[Len(attempted)].failed

----------------------------------------------------------------------------
(* app.py: Explore mode, and direct calls of the two builders *)

ExploreRow(n, ty, nl) == [name |-> n, data_type |-> ty, nullable |-> nl]

\* The table name typed in the Create Table tab: none, a name, a space.
ExploreNames == { <<>>, <<"t">>, <<" ">> }

\* What the Create Table editor holds: the default two rows; a row without a
\* name; a row without a data type.
ExploreSheets ==
    { << ExploreRow(<<"i", "d">>, <<"BIGINT">>, FALSE),
         ExploreRow(<<"e">>, <<"TIMESTAMP">>, TRUE) >>,
      << ExploreRow(<<" ">>, <<"STRING">>, TRUE) >>,
      << ExploreRow(<<"i", "d">>, <<>>, TRUE) >> }

\* lines 180-186: the rows that have a name and a data type, both stripped
CreateColumns(edited) ==
    LET Usable(r) == strip(PyStr(r.name)) # <<>> /\ strip(PyStr(r.data_type)) # <<>>
        rows == SelectSeq(edited, Usable)
    IN [i \in DOMAIN rows |->
           [name |-> strip(PyStr(rows[i].name)),
            data_type |-> strip(PyStr(rows[i].data_type)),
            nullable |-> rows[i].nullable]]

\* line 176: the options of the primary key multiselect
pk_candidates(edited) ==
    LET Named(r) == strip(PyStr(r.name)) # <<>>
        rows == SelectSeq(edited, Named)
    IN [i \in DOMAIN rows |-> rows[i].name]

\* Mutant of CreateTableClick: line 187 tests the table name only.
CreateTableClick_NameOnly(table_name, edited, primary_key_cols, ok) ==
    /\ pc = "idle"
    /\ call' = [op |-> "Create table", table_name |-> table_name, edited |-> edited,
                primary_key_cols |-> primary_key_cols]
    /\ LET cols == CreateColumns(edited)
       IN IF table_name = <<>>
          THEN ret' = [shown |-> "error", sql |-> <<>>, ran |-> FALSE]
          ELSE ret' = [shown |-> IF ok THEN "success" ELSE "failed",
                       sql |-> build_create_table_sql(catalog, schema, table_name, cols,
                                                      primary_key_cols),
                       ran |-> TRUE]
    /\ UNCHANGED <<catVars, fetchVars, dm, stmts, typed, applyVars>>

\* lines 179-196: Create table; ok is whether client.run_sql returns
CreateTableClick(table_name, edited, primary_key_cols, ok) ==
    /\ pc = "idle"
    /\ call' = [op |-> "Create table", table_name |-> table_name, edited |-> edited,
                primary_key_cols |-> primary_key_cols]
    /\ LET cols == CreateColumns(edited)
       IN IF table_name = <<>> \/ cols = <<>>
          THEN ret' = [shown |-> "error", sql |-> <<>>, ran |-> FALSE]
          ELSE ret' = [shown |-> IF ok THEN "success" ELSE "failed",
                       sql |-> build_create_table_sql(catalog, schema, table_name, cols,
                                                      primary_key_cols),
                       ran |-> TRUE]
    /\ UNCHANGED <<catVars, fetchVars, dm, stmts, typed, applyVars>>

\* lines 201, 212-213: the tables of the schema and the columns of one of them
list_tables(rs) == SortedStrs({r.table_name : r \in Range(rs.columns)})

ColumnsOfTable(rs, table_name) ==
    LET Keep(r) == r.table_name = table_name
        rows == SelectSeq(rs.columns, Keep)
    IN [i \in DOMAIN rows |-> rows[i].column_name]

\* lines 234-252: Add relationship; ok is whether client.run_sql returns
ExploreAddRelationship(child_table, parent_table, child_selected, parent_selected, constraint_name, ok) ==
    /\ pc = "idle"
    /\ child_table \in Range(list_tables(rowsets))
    /\ parent_table \in Range(list_tables(rowsets))
    /\ Len(child_selected) = Len(parent_selected)
    /\ \A i \in DOMAIN child_selected :
          /\ child_selected[i] \in Selectable(ColumnsOfTable(rowsets, child_table))
          /\ parent_selected[i] \in Selectable(ColumnsOfTable(rowsets, parent_table))
    /\ call' = [op |-> "Add relationship", child_table |-> child_table,
                parent_table |-> parent_table, child_cols |-> child_selected,
                parent_cols |-> parent_selected, constraint_name |-> constraint_name]
    /\ IF Len(child_selected) # Len(parent_selected) \/ child_selected = <<>>
       THEN ret' = [shown |-> "error", sql |-> <<>>, ran |-> FALSE]
       ELSE ret' = [shown |-> IF ok THEN "success" ELSE "failed",
                    sql |-> build_fk_sql(catalog, schema, child_table, parent_table,
                                         child_selected, parent_selected, constraint_name),
                    ran |-> TRUE]
    /\ UNCHANGED <<catVars, fetchVars, dm, stmts, typed, applyVars>>

\* The form with one column pair: the user picks tables and columns and keeps or
\* clears the constraint name.
ExploreAddRelationshipClick ==
    \E c, p \in Range(list_tables(rowsets)) :
        \E sc \in Selectable(ColumnsOfTable(rowsets, c)) :
            \E sp \in Selectable(ColumnsOfTable(rowsets, p)) :
                \E cn \in {<<>>, DefaultFkName(c, p)} : \E ok \in BOOLEAN :
                    ExploreAddRelationship(c, p, <<sc>>, <<sp>>, cn, ok)

\* A caller other than the handlers calls build_create_table_sql.
BuildCreateTable(table_name, columns, primary_key_cols) ==
    /\ pc = "idle"
    /\ call' = [op |-> "build_create_table_sql", table_name |-> table_name,
                columns |-> columns, primary_key_cols |-> primary_key_cols]
    /\ ret' = [shown |-> "returned",
               sql |-> build_create_table_sql(catalog, schema, table_name, columns,
                                              primary_key_cols),
               ran |-> FALSE]
    /\ UNCHANGED <<catVars, fetchVars, dm, stmts, typed, applyVars>>

\* A caller other than the handlers calls build_fk_sql.
BuildForeignKey(child_table, parent_table, child_cols, parent_cols, constraint_name) ==
    /\ pc = "idle"
    /\ call' = [op |-> "build_fk_sql", child_table |-> child_table,
                parent_table |-> parent_table, child_cols |-> child_cols,
                parent_cols |-> parent_cols, constraint_name |-> constraint_name]
    /\ ret' = [shown |-> "returned",
               sql |-> build_fk_sql(catalog, schema, child_table, parent_table,
                                    child_cols, parent_cols, constraint_name),
               ran |-> FALSE]
    /\ UNCHANGED <<catVars, fetchVars, dm, stmts, typed, applyVars>>

\* the arguments the direct calls are tried with
ArgNames == { <<>>, <<"t">> }
ArgColumns ==
    { <<>>,
      << ExploreRow(<<"i", "d">>, <<"BIGINT">>, FALSE) >>,
      << ExploreRow(<<"i", "d">>, <<"BIGINT">>, FALSE), ExploreRow(<<"k">>, <<"STRING">>, TRUE) >>,
      << ExploreRow(<<>>, <<"STRING">>, TRUE) >> }
ArgKeys == { <<>>, << <<"i", "d">> >>, << <<"k">>, <<"i", "d">> >> }
ArgLists == { <<>>, << <<"x">> >>, << <<"x">>, <<"y">> >> }

NextExplore ==
    \/ \E n \in ExploreNames : \E sheet \in ExploreSheets :
          \E pk \in {<<>>, pk_candidates(sheet)} : \E ok \in BOOLEAN :
             CreateTableClick(n, sheet, pk, ok)
    \/ ExploreAddRelationshipClick
    \/ \E n \in ArgNames : \E cols \in ArgColumns : \E pk \in ArgKeys :
          BuildCreateTable(n, cols, pk)
    \/ \E cc, pp \in ArgLists : BuildForeignKey(<<"b">>, <<"a">>, cc, pp, <<"f">>)

SpecExplore == Init /\ [][NextExplore]_vars

----------------------------------------------------------------------------
(* Claims about the builders and the Explore handlers *)

NoValidColumn(columns) ==
    \A i \in DOMAIN columns :
        strip(PyStr(columns[i].name)) = <<>> \/ strip(PyStr(columns[i].data_type)) = <<>>

\* C8 as claimed: given zero valid columns or an empty table name,
\* build_create_table_sql signals failure and produces no DDL text, and so does
\* build_fk_sql given column lists of different lengths.
C8_Original ==
    /\ (call.op = "build_create_table_sql"
          /\ (call.table_name = <<>> \/ NoValidColumn(call.columns)))
       => (ret.shown = "raised" /\ ret.sql = <<>>)
    /\ (call.op = "build_fk_sql" /\ Len(call.child_cols) # Len(call.parent_cols))
       => (ret.shown = "raised" /\ ret.sql = <<>>)

\* C8 amended: the two builders validate nothing and return DDL text made of
\* their arguments as given (every column they were handed, an empty quoted
\* table name, both column lists in full); the failure is signalled by the
\* Create table handler, which shows an error and builds and executes nothing
\* when the table name is empty or no row has both a name and a data type.
C8_CallersReject ==
    /\ (call.op = "Create table"
          /\ (call.table_name = <<>> \/ NoValidColumn(call.edited)))
       => (ret.shown = "error" /\ ret.sql = <<>> /\ ~ ret.ran)
    /\ call.op = "build_create_table_sql"
       => /\ ret.shown = "returned"
          /\ IsCreate(ret.sql)
          /\ Idents(ret.sql) =
                <<catalog, schema, call.table_name>>
                \o [i \in DOMAIN call.columns |-> call.columns[i].name]
                \o (IF call.primary_key_cols = <<>> THEN <<>>
                    ELSE << <<"p", "k", "_">> \o call.table_name >> \o call.primary_key_cols)
    /\ call.op = "build_fk_sql"
       => /\ ret.shown = "returned"
          /\ IsForeignKey(ret.sql)
          /\ Idents(ret.sql) =
                <<catalog, schema, call.child_table, call.constraint_name>>
                \o call.child_cols \o <<catalog, schema, call.parent_table>>
                \o call.parent_cols

\* The Create table handler was clicked with a table name and no valid row.
C8_Witness ==
    /\ call.op = "Create table"
    /\ call.table_name # <<>>
    /\ NoValidColumn(call.edited)
    /\ ret.shown = "error"

----------------------------------------------------------------------------
(* Claims about Import *)

\* The design model is the graph g in the model's shape: the same tables in the
\* same order with the same columns, and the same relationships in order.
ModelOfGraph(model, g) ==
    /\ Len(model.tables) = Len(g.tables)
    /\ \A i \in DOMAIN model.tables :
          /\ DOMAIN model.tables[i] = {"name", "columns"}
          /\ model.tables[i].name = g.tables[i].name
          /\ Len(model.tables[i].columns) = Len(g.tables[i].columns)
          /\ \A j \in DOMAIN model.tables[i].columns :
                model.tables[i].columns[j] =
                    [name |-> g.tables[i].columns[j].name,
                     data_type |-> g.tables[i].columns[j].data_type,
                     nullable |-> g.tables[i].columns[j].is_nullable,
                     is_pk |-> g.tables[i].columns[j].is_pk]
    /\ Len(model.relationships) = Len(g.relationships)
    /\ \A i \in DOMAIN model.relationships :
          /\ model.relationships[i].name = g.relationships[i].name
          /\ model.relationships[i].child_table = g.relationships[i].child_table
          /\ model.relationships[i].parent_table = g.relationships[i].parent_table
          /\ model.relationships[i].child_cols = g.relationships[i].child_cols
          /\ model.relationships[i].parent_cols = g.relationships[i].parent_cols

----------------------------------------------------------------------------
(* modeler/erd.py: the diagram encoders *)

\* name.replace("-", "_")
ReplaceHyphens(s) == [i \in DOMAIN s |-> IF s[i] = "-" THEN "_" ELSE s[i]]

\* lines 145, 150, 151: the node identifier of a table
NodeName(sch, table_name) == ReplaceHyphens(PyStr(sch) \o <<"_">> \o PyStr(table_name))

\* lines 130-135: the flags of a column
FlagTxt(col) ==
    LET flags == (IF col.is_pk THEN << <<"PK">> >> ELSE <<>>)
                 \o (IF col.is_fk THEN << <<"FK">> >> ELSE <<>>)
    IN IF flags # <<>> THEN <<" [">> \o Join(flags, <<" ,">>) \o <<"]">> ELSE <<>>

\* lines 136-139: the row of a column
ColumnRow(col) ==
    <<"<TR><TD ALIGN=\"LEFT\">">> \o PyStr(col.name) \o <<": ">> \o PyStr(col.data_type)
    \o FlagTxt(col) \o <<"</TD></TR>">>

\* lines 126-146: the line of a table's node
NodeLine(sch, t) ==
    LET header == PyStr(sch) \o <<".">> \o PyStr(t.name)
        rows == << <<"<TR><TD BGCOLOR=\"#e8e8e8\"><B>">> \o header \o <<"</B></TD></TR>">> >>
                \o [j \in DOMAIN t.columns |-> ColumnRow(t.columns[j])]
        html_label == <<"<<TABLE BORDER=\"0\" CELLBORDER=\"1\" CELLSPACING=\"0\">">>
                      \o Join(rows, <<>>) \o <<"</TABLE>>">>
    IN <<"  ">> \o NodeName(sch, t.name) \o <<" [label=">> \o html_label \o <<"];">>

\* lines 152-155: the label of an edge
EdgeLabel(r) ==
    IF Len(r.child_cols) = Len(r.parent_cols) /\ Len(r.child_cols) > 0
    THEN LET pairs == [i \in DOMAIN r.child_cols |->
                          PyStr(r.child_cols[i]) \o <<"->">> \o PyStr(r.parent_cols[i])]
         IN PyStr(r.name) \o <<" (">> \o Join(pairs, <<",", " ">>) \o <<")">>
    ELSE PyStr(r.name)

\* lines 149-158: the line of a relationship's edge
EdgeLine(sch, r) ==
    <<"  ">> \o NodeName(sch, r.child_table) \o <<" -> ">> \o NodeName(sch, r.parent_table)
    \o <<" [color=\"#4b8bbe\", label=\"">> \o EdgeLabel(r) \o <<"\"];">>

\* line 125: sorted(tables.items())
SortedTables(tables) ==
    LET names == SortedStrs({tables[i].name : i \in DOMAIN tables})
    IN [k \in DOMAIN names |->
           tables[CHOOSE i \in DOMAIN tables : tables[i].name = names[k]]]

\* lines 114-161
build_graphviz_dot(md, cat, sch) ==
    LET sorted == SortedTables(md.tables)
        lines == << <<"digraph ERD {">>,
                    <<"  graph [rankdir=LR, bgcolor=white];">>,
                    <<"  node [shape=plain, fontname=Helvetica];">>,
                    <<"  edge [color=gray50, arrowsize=0.8];">> >>
                 \o [i \in DOMAIN sorted |-> NodeLine(sch, sorted[i])]
                 \o [i \in DOMAIN md.relationships |-> EdgeLine(sch, md.relationships[i])]
                 \o << <<"}">> >>
    IN Join(lines, <<NL>>)


\* Mutant of DerivedFk: the child table of the relationship is not looked at.
DerivedFk_AnyTable(rels, table_name, col_name) ==
    \E i \in DOMAIN rels : col_name \in Range(rels[i].child_cols)

\* lines 187-191: the column is marked by some relationship whose child is its table
DerivedFk(rels, table_name, col_name) ==
    \E i \in DOMAIN rels :
        rels[i].child_table = table_name /\ col_name \in Range(rels[i].child_cols)

\* lines 166-185: the model in the graph's shape, with the flags of lines 187-191
MetadataLike(model) ==
    [tables |-> [i \in DOMAIN model.tables |->
        [name |-> model.tables[i].name,
         columns |-> [j \in DOMAIN model.tables[i].columns |->
            [name |-> model.tables[i].columns[j].name,
             data_type |-> model.tables[i].columns[j].data_type,
             is_pk |-> model.tables[i].columns[j].is_pk,
             is_fk |-> DerivedFk(model.relationships, model.tables[i].name,
                                 model.tables[i].columns[j].name)]]]],
     relationships |-> model.relationships]

\* lines 164-192
build_graphviz_dot_from_model(model, cat, sch) ==
    build_graphviz_dot(MetadataLike(model), cat, sch)

----------------------------------------------------------------------------
(* app.py: the diagrams of the two modes *)

\* lines 91-98: the ER Diagram tab of Explore mode
ShowErd ==
    /\ pc = "idle"
    /\ LET m == fetch_model_metadata(rowsets)
       IN /\ metadata' = <<m>>
          /\ first' = IF first = <<>> THEN <<m>> ELSE first
          /\ fetched' = <<rowsets>>
          /\ call' = [op |-> "ER Diagram", metadata |-> m]
          /\ ret' = [shown |-> "chart", dot |-> build_graphviz_dot(m, catalog, schema)]
    /\ UNCHANGED <<catVars, dm, stmts, typed, applyVars>>

\* lines 356-360: the canvas of Design mode, drawn by a run of the script
Canvas ==
    /\ pc = "idle"
    /\ call' = [op |-> "Canvas", model |-> dm]
    /\ ret' = [shown |-> "chart", dot |-> build_graphviz_dot_from_model(dm, catalog, schema)]
    /\ UNCHANGED <<catVars, fetchVars, dm, stmts, typed, applyVars>>

\* The table names typed in the session of the diagrams: they differ only by a
\* hyphen and an underscore.
DiagramNames == { <<"a", "_", "b">>, <<"a", "-", "b">> }

\* The warehouse's answer varies before the first fetch, while the design model
\* is empty; the design model is edited before the first fetch, up to its
\* first relationship, and until a diagram is drawn.
NextDiagram ==
    \/ dm = EmptyModel /\ \E name \in RowsetNames : \E i \in 1..6 : DropRow(name, i)
    \/ dm = EmptyModel /\ \E i \in 1..2 : NullUniqueName(i)
    \/ ShowErd
    \/ Import
    \/ Canvas
    \/ edits = 0 /\ metadata = <<>> /\ call = NoCall
          /\ \E n \in DiagramNames : \E sheet \in Sheets : UpsertTable(n, sheet)
    \/ edits = 0 /\ metadata = <<>> /\ call = NoCall /\ dm.relationships = <<>>
          /\ AddRelationshipClick

SpecDiagram == Init /\ [][NextDiagram]_vars

----------------------------------------------------------------------------
(* Reading a diagram back *)

\* the position of the first tok in s, or 0
RECURSIVE IndexFrom(_, _, _)
IndexFrom(s, tok, i) ==
    IF i > Len(s) THEN 0 ELSE IF s[i] = tok THEN i ELSE IndexFrom(s, tok, i + 1)

IndexOf(s, tok) == IndexFrom(s, tok, 1)

\* the pieces of s between the occurrences of tok
RECURSIVE SplitAt(_, _)
SplitAt(s, tok) ==
    LET i == IndexOf(s, tok)
    IN IF i = 0 THEN <<s>>
       ELSE <<SubSeq(s, 1, i - 1)>> \o SplitAt(SubSeq(s, i + 1, Len(s)), tok)

\* what stands in s after the first open and before the next close
Between(s, open, close) ==
    LET rest == SubSeq(s, IndexOf(s, open) + 1, Len(s))
    IN SubSeq(rest, 1, IndexOf(rest, close) - 1)

DotLines(dot) == SplitAt(dot, NL)

IsNodeLine(line) == IndexOf(line, " [label=") # 0
IsEdgeLine(line) == IndexOf(line, " -> ") # 0

NodeLines(dot) == SelectSeq(DotLines(dot), IsNodeLine)
EdgeLines(dot) == SelectSeq(DotLines(dot), IsEdgeLine)

\* the identifier of a node, and the table named in its header
NodeId(line) == Between(line, "  ", " [label=")
NodeTable(line) ==
    LET header == Between(line, "<TR><TD BGCOLOR=\"#e8e8e8\"><B>", "</B></TD></TR>")
    IN SubSeq(header, IndexOf(header, ".") + 1, Len(header))

\* the rows of the columns of a node: name, and whether [.. FK] follows
NodeColumns(line) ==
    LET pieces == Tail(SplitAt(line, "<TR><TD ALIGN=\"LEFT\">"))
    IN [i \in DOMAIN pieces |->
           [name |-> SubSeq(pieces[i], 1, IndexOf(pieces[i], ": ") - 1),
            pk |-> IndexOf(pieces[i], "PK") # 0,
            fk |-> IndexOf(pieces[i], "FK") # 0]]

\* the two ends and the label of an edge
EdgeChild(line) == Between(line, "  ", " -> ")
EdgeParent(line) == Between(line, " -> ", " [color=\"#4b8bbe\", label=\"")
EdgeLabelOf(line) == Between(line, " [color=\"#4b8bbe\", label=\"", "\"];")

\* the columns a diagram marks [FK], as pairs of table and column
FkMarked(dot) ==
    LET nodes == NodeLines(dot)
    IN UNION { { <<NodeTable(nodes[i]), NodeColumns(nodes[i])[j].name>> :
                   j \in {k \in DOMAIN NodeColumns(nodes[i]) : NodeColumns(nodes[i])[k].fk} } :
               i \in DOMAIN nodes }

----------------------------------------------------------------------------
(* Claims about the diagrams *)

\* the columns that are a child column of a relationship of their own table
ChildColumns(tables, rels) ==
    UNION { { <<PyStr(t.name), PyStr(c.name)>> : c \in Range(t.columns) } :
            t \in Range(tables) }
    \cap UNION { { <<PyStr(r.child_table), PyStr(c)>> : c \in Range(r.child_cols) } :
                 r \in Range(rels) }

\* C12: a column's is_fk flag is true iff its name is in the child column list
\* of a relationship whose child table is the column's table: in the graph of
\* fetch_model_metadata, and in the [FK] marks that
\* build_graphviz_dot_from_model derives from a design model; the diagram of a
\* graph and the diagram of metadata_to_model of that graph mark the same columns.
C12_FkFlagDerived ==
    /\ metadata # <<>> =>
          \A t \in Range(metadata[1].tables) : \A c \in Range(t.columns) :
              c.is_fk <=> \E r \in Range(metadata[1].relationships) :
                             r.child_table = t.name /\ c.name \in Range(r.child_cols)
    /\ call.op = "Canvas" =>
          FkMarked(ret.dot) = ChildColumns(call.model.tables, call.model.relationships)
    /\ call.op = "ER Diagram" =>
          /\ FkMarked(ret.dot) =
                ChildColumns(call.metadata.tables, call.metadata.relationships)
          /\ FkMarked(ret.dot) =
                FkMarked(build_graphviz_dot_from_model(metadata_to_model(call.metadata),
                                                       catalog, schema))

\* The canvas was drawn for a design model with two tables that both have a
\* column id, and a relationship whose child column id belongs to one of them.
C12_Witness ==
    /\ call.op = "Canvas"
    /\ Len(call.model.tables) = 2
    /\ \E t \in Range(call.model.tables) : \E u \in Range(call.model.tables) :
          /\ t.name # u.name
          /\ <<t.name, <<"i", "d">> >> \in FkMarked(ret.dot)
          /\ <<u.name, <<"i", "d">> >> \notin FkMarked(ret.dot)
          /\ \E c \in Range(u.columns) : c.name = <<"i", "d">>


----------------------------------------------------------------------------
(* Claims about build_create_table_sql *)

\* a line of a CREATE TABLE statement without the key clause that may follow
BeforeKeyClause(line) ==
    IF IndexOf(line, " CONSTRAINT ") = 0 THEN line
    ELSE SubSeq(line, 1, IndexOf(line, " CONSTRAINT ") - 1)

\* the lines of a CREATE TABLE statement that define a column
ColumnLines(sql) ==
    LET lines == SplitAt(sql, NL)
        Defines(line) == Idents(BeforeKeyClause(line)) # <<>>
    IN SelectSeq(SubSeq(lines, 2, Len(lines) - 1), Defines)

\* the columns a CREATE TABLE statement defines, in order: name and NOT NULL
DefinedColumns(sql) ==
    LET lines == ColumnLines(sql)
    IN [i \in DOMAIN lines |->
           [name |-> Idents(lines[i])[1],
            not_null |-> IndexOf(BeforeKeyClause(lines[i]), " NOT NULL") # 0]]

HasKeyClause(sql) == IndexOf(sql, " CONSTRAINT ") # 0 /\ IndexOf(sql, " PRIMARY KEY (") # 0

\* the constraint and the columns of the PRIMARY KEY clause, in order
KeyClause(sql) == Idents(SubSeq(sql, IndexOf(sql, " CONSTRAINT "), Len(sql)))

\* C13: build_create_table_sql lists the columns in the order of the input
\* sequence, adds NOT NULL exactly for the columns whose nullable is false, and
\* emits CONSTRAINT pk_<table> PRIMARY KEY iff primary_key_cols is non-empty,
\* with the key columns in input order.
C13_CreateTableShape ==
    call.op = "build_create_table_sql" =>
        LET cols == DefinedColumns(ret.sql)
        IN /\ Len(cols) = Len(call.columns)
           /\ \A i \in DOMAIN cols :
                 /\ cols[i].name = call.columns[i].name
                 /\ cols[i].not_null <=> ~ call.columns[i].nullable
           /\ HasKeyClause(ret.sql) <=> call.primary_key_cols # <<>>
           /\ HasKeyClause(ret.sql) =>
                 KeyClause(ret.sql) =
                     << <<"p", "k", "_">> \o call.table_name >> \o call.primary_key_cols

\* The builder was called with a NOT NULL column before a nullable one and the
\* key columns in the other order.
C13_Witness ==
    /\ call.op = "build_create_table_sql"
    /\ Len(call.columns) = 2
    /\ ~ call.columns[1].nullable
    /\ call.columns[2].nullable
    /\ call.primary_key_cols = << call.columns[2].name, call.columns[1].name >>


\* the graph or the model the last diagram was drawn for
Drawn == IF call.op = "Canvas" THEN call.model ELSE call.metadata

\* the node line of a table, or 0
NodeOf(nodes, table_name) ==
    IF \E i \in DOMAIN nodes : NodeTable(nodes[i]) = PyStr(table_name)
    THEN CHOOSE i \in DOMAIN nodes : NodeTable(nodes[i]) = PyStr(table_name)
    ELSE 0

\* the column pairs an edge label lists, in order
LabelPairs(label) ==
    LET pieces == SplitAt(Between(label, " (", ")"), ",")
        Pair(piece) == SplitAt(piece, "->")
    IN [i \in DOMAIN pieces |-> Pair(IF i = 1 THEN pieces[i] ELSE Tail(pieces[i]))]

\* one node per table, in ascending order of the table names
NodesSorted(dot, g) ==
    LET nodes == NodeLines(dot)
    IN /\ Len(nodes) = Len(g.tables)
       /\ [i \in DOMAIN nodes |-> NodeTable(nodes[i])]
             = SortedStrs({PyStr(t.name) : t \in Range(g.tables)})

\* distinct tables have distinct node identifiers
NodeIdsDistinct(dot) ==
    LET nodes == NodeLines(dot)
    IN \A i, j \in DOMAIN nodes : i # j => NodeId(nodes[i]) # NodeId(nodes[j])

\* one edge per relationship, in order, from the child's node to the parent's
\* node, with the column pairs in its label exactly when the lists pair up
EdgesFollow(dot, g) ==
    LET nodes == NodeLines(dot)
        edges == EdgeLines(dot)
    IN /\ Len(edges) = Len(g.relationships)
       /\ \A i \in DOMAIN edges :
             LET r == g.relationships[i]
                 paired == Len(r.child_cols) = Len(r.parent_cols) /\ Len(r.child_cols) > 0
             IN /\ NodeOf(nodes, r.child_table) # 0 =>
                       EdgeChild(edges[i]) = NodeId(nodes[NodeOf(nodes, r.child_table)])
                /\ NodeOf(nodes, r.parent_table) # 0 =>
                       EdgeParent(edges[i]) = NodeId(nodes[NodeOf(nodes, r.parent_table)])
                /\ IndexOf(EdgeLabelOf(edges[i]), " (") # 0 <=> paired
                /\ paired =>
                       LabelPairs(EdgeLabelOf(edges[i])) =
                           [k \in DOMAIN r.child_cols |->
                               <<PyStr(r.child_cols[k]), PyStr(r.parent_cols[k])>>]

\* C14: build_graphviz_dot emits one node per table, distinct tables getting
\* distinct node identifiers, in ascending table-name order, and one edge per
\* relationship from the child's node to the parent's node, in the order of
\* the relationships, the label carrying the ordered column pairs exactly when
\* the two column lists have equal non-zero length.
C14_DiagramShape ==
    call.op \in {"Canvas", "ER Diagram"} =>
        /\ NodesSorted(ret.dot, Drawn)
        /\ NodeIdsDistinct(ret.dot)
        /\ EdgesFollow(ret.dot, Drawn)

\* C14 without the distinct identifiers
C14_ShapeOnly ==
    call.op \in {"Canvas", "ER Diagram"} => NodesSorted(ret.dot, Drawn) /\ EdgesFollow(ret.dot, Drawn)


----------------------------------------------------------------------------
(* app.py: the SQL preview of a run in which no button was clicked *)

\* Mutant of Preview: the call takes the relationships out of the model.
Preview_Consumes ==
    /\ pc = "idle"
    /\ stmts' = generate_sql_from_model(dm, catalog, schema)
    /\ dm' = [dm EXCEPT !.relationships = <<>>]
    /\ call' = [op |-> "SQL Preview"]
    /\ ret' = [shown |-> "code",
               sql |-> IF stmts' = <<>> THEN <<"-- No statements">>
                       ELSE Join(stmts', <<";", NL, NL>>)]
    /\ Rerun
    /\ UNCHANGED <<catVars, fetchVars, typed>>

\* lines 374-377: the statements are generated again from the model as the
\* last run left it; the call builds new lists and assigns nothing in the model
Preview ==
    /\ pc = "idle"
    /\ stmts' = generate_sql_from_model(dm, catalog, schema)
    /\ dm' = dm
    /\ call' = [op |-> "SQL Preview"]
    /\ ret' = [shown |-> "code",
               sql |-> IF stmts' = <<>> THEN <<"-- No statements">>
                       ELSE Join(stmts', <<";", NL, NL>>)]
    /\ Rerun
    /\ UNCHANGED <<catVars, fetchVars, typed>>

\* The design model is edited, up to its first relationship added by hand,
\* until the first run without a click.
NextPreview ==
    \/ call = NoCall /\ \E n \in TypedNames : \E sheet \in Sheets : UpsertTable(n, sheet)
    \/ call = NoCall /\ \E n \in TypedNames : RemoveTable(n)
    \/ call = NoCall /\ dm.relationships = <<>> /\ AddRelationshipClick
    \/ Import
    \/ Preview

SpecPreview == InitDesign /\ [][NextPreview]_vars

----------------------------------------------------------------------------
(* Claims about the design model *)

\* the column lists of every relationship pair up and are not empty
ColumnListsPair(model) ==
    \A r \in Range(model.relationships) :
        Len(r.child_cols) = Len(r.parent_cols) /\ Len(r.child_cols) >= 1

\* the two tables of every relationship are tables of the model
TablesPresent(model) ==
    \A r \in Range(model.relationships) :
        r.child_table \in TableNames(model) /\ r.parent_table \in TableNames(model)

\* C16: in every design model reachable from the empty one by Add/Update
\* Table, Remove Table, Add Relationship and Import, the child and the parent
\* table of each relationship are tables of the model, and its two column
\* lists have the same length of at least 1.
C16_RelationshipsWellFormed == TablesPresent(dm) /\ ColumnListsPair(dm)

\* C16, the column lists alone
C16_ColumnListsPair == ColumnListsPair(dm)


----------------------------------------------------------------------------
(* Claims about primary keys *)

\* the key columns of every CREATE TABLE statement are defined in it
StatementKeysDefined(ss) ==
    \A s \in Range(ss) :
        (IsCreate(s) /\ HasKeyClause(s)) =>
            Range(Tail(KeyClause(s))) \subseteq
                {DefinedColumns(s)[i].name : i \in DOMAIN DefinedColumns(s)}

\* the pk_columns of every table of the graph are columns of the table
GraphKeysAreColumns(g) ==
    \A t \in Range(g.tables) : t.pk_columns \subseteq {c.name : c \in Range(t.columns)}

\* C17: in every CREATE TABLE statement of generate_sql_from_model each column
\* of the PRIMARY KEY clause is a column the statement defines, and in the
\* graph of fetch_model_metadata every name in a table's pk_columns is the
\* name of one of the table's columns.
C17_KeysAreColumns ==
    /\ StatementKeysDefined(stmts)
    /\ metadata # <<>> => GraphKeysAreColumns(metadata[1])

\* C17, the statements alone
C17_StatementKeysDefined == StatementKeysDefined(stmts)


----------------------------------------------------------------------------
(* Claims about the tables a foreign key refers to *)

\* the parent table of an ALTER TABLE statement
ReferencedTable(s) == Idents(SubSeq(s, IndexOf(s, ") REFERENCES ") + 1, Len(s)))[3]

\* a CREATE TABLE of the table stands before position i of the sequence
CreatedBefore(ss, i, table_name) ==
    \E j \in 1..(i - 1) : IsCreate(ss[j]) /\ CreatedTable(ss[j]) = table_name

\* the model holds the table with a column whose name and data type are not blank
HasValidColumn(model, table_name) ==
    \E t \in Range(model.tables) :
        /\ t.name = table_name
        /\ \E c \in Range(t.columns) :
              strip(PyStr(c.name)) # <<>> /\ strip(PyStr(c.data_type)) # <<>>

\* C18 as claimed: for every ADD CONSTRAINT FOREIGN KEY of the sequence, a
\* CREATE TABLE of its child table and one of its parent table stand earlier
\* in the sequence, also when the CREATE of a table without a valid column is
\* skipped.
C18_Original ==
    \A i \in DOMAIN stmts :
        IsForeignKey(stmts[i]) =>
            /\ CreatedBefore(stmts, i, FkChild(stmts[i]))
            /\ CreatedBefore(stmts, i, ReferencedTable(stmts[i]))

\* C18 amended: every CREATE TABLE of the sequence stands before every ADD
\* CONSTRAINT FOREIGN KEY, and a CREATE TABLE of the child (of the parent)
\* table of a foreign key stands before it exactly when the model holds that
\* table with at least one valid column; the foreign key of a relationship is
\* emitted also when the CREATE of one of its tables is skipped or the table is
\* not in the model, and then the sequence holds no CREATE TABLE of that table.
C18_CreatedWhenValid ==
    /\ Len(ForeignKeys(stmts)) = Len(dm.relationships)
    /\ \A i \in DOMAIN stmts :
          IsForeignKey(stmts[i]) =>
              /\ \A j \in DOMAIN stmts : IsCreate(stmts[j]) => j < i
              /\ CreatedBefore(stmts, i, FkChild(stmts[i]))
                    <=> HasValidColumn(dm, FkChild(stmts[i]))
              /\ CreatedBefore(stmts, i, ReferencedTable(stmts[i]))
                    <=> HasValidColumn(dm, ReferencedTable(stmts[i]))

\* A foreign key from a table of the model without a valid column to a table
\* with one: the parent's CREATE TABLE stands before it, the child has none.
C18_Witness ==
    \E i \in DOMAIN stmts :
        /\ IsForeignKey(stmts[i])
        /\ FkChild(stmts[i]) \in TableNames(dm)
        /\ ~ HasValidColumn(dm, FkChild(stmts[i]))
        /\ ~ CreatedBefore(stmts, i, FkChild(stmts[i]))
        /\ CreatedBefore(stmts, i, ReferencedTable(stmts[i]))

====
